---- MODULE Spec2Model ----
(***************************************************************************)
(* Weather Now (src/src/App.tsx): the request/response state machine of    *)
(* the App component.  The six useState cells are the variables query,     *)
(* locations, loadingGeo, loadingWeather, weather and error.  The requests *)
(* that are in flight (geocoding fetch, forecast fetch, device position)   *)
(* are kept in geoReqs, wxReqs and posReqs; a response may arrive for any  *)
(* of them at any time, in any order.                                      *)
(*                                                                         *)
(* Encoding.  Text the user can type (query, place names, labels) is a     *)
(* sequence of one-character strings, so that trim() and the label         *)
(* composition are computed; messages are TLA+ strings.  A value that may  *)
(* be null/undefined is a sequence of length 0 (Null) or 1 (Some(v)).      *)
(* Coordinates are integers in thousandths of a degree, temperatures        *)
(* integers in tenths of a degree.                                         *)
(***************************************************************************)
EXTENDS Integers, Sequences, FiniteSets, TLC

VARIABLES
  query, locations, loadingGeo, loadingWeather, weather, error, \* useState
  geolocation,  \* navigator.geolocation is there
  geoReqs,      \* geocoding fetches in flight
  wxReqs,       \* forecast fetches in flight
  posReqs,      \* getCurrentPosition calls in flight
  nReqs,        \* requests issued so far; a request's id is its rank
  solo,         \* history: the request, if any, whose operation has been the
                \* only outstanding one ever since it started
  answered,     \* history: per kind of fetch, the highest id answered so far
  lastEvent,    \* history: the handler or callback that ran last
  code,         \* the argument of the last call of mapWeather
  descriptor    \* and what the call returned

ui   == <<query, locations, loadingGeo, loadingWeather, weather, error>>
reqs == <<geoReqs, wxReqs, posReqs>>
vars == <<query, locations, loadingGeo, loadingWeather, weather, error,
          geolocation, geoReqs, wxReqs, posReqs, nReqs, solo, answered,
          lastEvent, code, descriptor>>

\* The user starts an operation only while fewer than MaxReqs requests were
\* issued.
MaxReqs == 3

\* The longest daily forecast the upstream sends to the forecast-only runs.
MaxDays == 4

\* mapWeather is called with every code from -1 to MaxCode, and with none.
MaxCode == 99

Null    == <<>>
Some(v) == <<v>>

-----------------------------------------------------------------------------
(* Text helpers *)

WhiteSpace == {" ", "\t", "\n"}

RECURSIVE TrimStart(_)
TrimStart(s) ==
  IF s # <<>> /\ Head(s) \in WhiteSpace THEN TrimStart(Tail(s)) ELSE s

RECURSIVE TrimEnd(_)
TrimEnd(s) ==
  IF s # <<>> /\ s[Len(s)] \in WhiteSpace
  THEN TrimEnd(SubSeq(s, 1, Len(s) - 1)) ELSE s

\* No trimming at all: a test of the raw string.
TrimNothing(s) == s

\* String.prototype.trim
Trim(s) == TrimEnd(TrimStart(s))

DigitChar(d) == <<"0", "1", "2", "3", "4", "5", "6", "7", "8", "9">>[d + 1]

RECURSIVE Digits(_)
Digits(n) ==
  IF n < 10 THEN <<DigitChar(n)>> ELSE Digits(n \div 10) \o <<DigitChar(n % 10)>>

\* Number.prototype.toFixed(2) of x thousandths: nearest hundredth, the
\* larger magnitude on a tie, two fraction digits, "-" kept for x < 0.
ToFixed2(x) ==
  LET a == IF x < 0 THEN 0 - x ELSE x
      c == (a + 5) \div 10
  IN  (IF x < 0 THEN <<"-">> ELSE <<>>)
        \o Digits(c \div 100) \o <<".">>
        \o <<DigitChar((c % 100) \div 10), DigitChar(c % 10)>>

-----------------------------------------------------------------------------
(* What the outside world can deliver *)

LocA == [name |-> <<"P">>, admin1 |-> <<"E">>, latitude |-> 51507, longitude |-> -128]
LocB == [name |-> <<"Q">>, admin1 |-> <<>>,    latitude |-> -33868, longitude |-> 151209]

\* Text the user types into the search box.
TypedQueries == { <<" ", " ">>, <<" ", "P", " ">> }

\* Parsed bodies of the geocoding endpoint: results absent, empty, or a list.
GeoBodies == { [results |-> Null],
               [results |-> Some(<<>>)],
               [results |-> Some(<<LocB, LocA>>)] }

Current == [temperature |-> 12, windspeed |-> 7, winddirection |-> 200,
            weathercode |-> 3, time |-> "t0"]

Daily5 == [time               |-> <<"d1", "d2", "d3", "d4", "d5">>,
           weathercode        |-> <<0, 3, 61, 95, 7>>,
           temperature_2m_max |-> <<115, 124, -25, 140, 150>>,
           temperature_2m_min |-> <<14, -36, -115, 40, 50>>]

Daily2 == [time               |-> <<"d1", "d2">>,
           weathercode        |-> <<45, 2>>,
           temperature_2m_max |-> <<204, 195>>,
           temperature_2m_min |-> <<96, 105>>]

\* Empty arrays; an absent daily.time reads the same, Null being <<>>.
Daily0 == [time               |-> <<>>,
           weathercode        |-> <<>>,
           temperature_2m_max |-> <<>>,
           temperature_2m_min |-> <<>>]

\* Parsed bodies of the forecast endpoint.
WxBodies == { [current_weather |-> Some(Current), daily |-> Some(Daily5),
               timezone |-> <<"Z">>],
              [current_weather |-> Some(Current), daily |-> Null,
               timezone |-> <<"Z">>],
              [current_weather |-> Null, daily |-> Some(Daily5),
               timezone |-> <<"Z">>] }

\* Upstream daily arrays of n days.
DaysOf(n) ==
  [time               |-> [i \in 1 .. n |-> "d" \o ToString(i)],
   weathercode        |-> [i \in 1 .. n |-> <<2, 48, 9, 80>>[(i % 4) + 1]],
   temperature_2m_max |-> [i \in 1 .. n |-> 205 - 10 * i],
   temperature_2m_min |-> [i \in 1 .. n |-> 17 * i - 60]]

\* Forecast bodies with current_weather and daily arrays of every length up
\* to MaxDays, or without daily.
DailyBodies ==
  { [current_weather |-> Some(Current), daily |-> d, timezone |-> <<"Z">>] :
      d \in {Null, Some(Daily5), Some(Daily2), Some(Daily0)}
               \cup { Some(DaysOf(n)) : n \in 1 .. MaxDays } }

\* Messages of a rejected fetch / a rejected res.json(); "" is an exception
\* without a message.
ExcMessages == {"Failed to fetch", ""}

Statuses == {200, 404, 500}

\* The outcome of one HTTP exchange: fetch rejects (exc = Some(message)), or
\* it resolves with a status and a body that parses (json = Some(data)) or not.
\* The body of a non-2xx response is never read, so it is left unparsed.
Outcomes(bodies) ==
  { [exc |-> Some(m), status |-> 0, json |-> Null] : m \in ExcMessages }
    \cup
  { [exc |-> Null, status |-> s, json |-> Null] : s \in Statuses }
    \cup
  { [exc |-> Null, status |-> 200, json |-> Some(b)] : b \in bodies }

\* Response.ok
Ok(status) == status >= 200 /\ status <= 299

\* Message of the SyntaxError res.json() rejects with.
JsonSyntaxError == "Unexpected token < in JSON"

\* Device positions and device error messages.
Positions == { [latitude |-> 17978, longitude |-> 79594] }
DeviceMessages == {"User denied Geolocation", ""}

YourLocation == <<"Y", "o", "u", "r", " ", "l", "o", "c", "a", "t", "i", "o", "n">>

-----------------------------------------------------------------------------
(* Weather codes (App.tsx 4-23).  An icon is written as its code points. *)

WEATHER_CODE_MAP ==
  (0  :> [text |-> "Clear sky",     icon |-> "U+2600 U+FE0F"]) @@
  (1  :> [text |-> "Mainly clear",  icon |-> "U+1F324 U+FE0F"]) @@
  (2  :> [text |-> "Partly cloudy", icon |-> "U+26C5"]) @@
  (3  :> [text |-> "Overcast",      icon |-> "U+2601 U+FE0F"]) @@
  (45 :> [text |-> "Fog",           icon |-> "U+1F32B U+FE0F"]) @@
  (48 :> [text |-> "Fog (rime)",    icon |-> "U+1F32B U+FE0F"]) @@
  (51 :> [text |-> "Light drizzle", icon |-> "U+1F326 U+FE0F"]) @@
  (61 :> [text |-> "Slight rain",   icon |-> "U+1F327 U+FE0F"]) @@
  (63 :> [text |-> "Moderate rain", icon |-> "U+1F327 U+FE0F"]) @@
  (65 :> [text |-> "Heavy rain",    icon |-> "U+26C8 U+FE0F"]) @@
  (71 :> [text |-> "Light snow",    icon |-> "U+2744 U+FE0F"]) @@
  (80 :> [text |-> "Showers",       icon |-> "U+1F327 U+FE0F"]) @@
  (95 :> [text |-> "Thunderstorm",  icon |-> "U+26C8 U+FE0F"])

\* The test for an absent code is a test for a falsy one, which 0 is.
mapWeatherFalsyZero(c) ==
  IF c = Null \/ c = Some(0) THEN [text |-> "Unknown", icon |-> "U+2753"]
  ELSE IF c[1] \in DOMAIN WEATHER_CODE_MAP THEN WEATHER_CODE_MAP[c[1]]
  ELSE [text |-> "Unknown", icon |-> "U+2753"]

\* mapWeather (App.tsx 20-23); c is Null for an absent code.
mapWeather(c) ==
  IF c = Null THEN [text |-> "Unknown", icon |-> "U+2753"]
  ELSE IF c[1] \in DOMAIN WEATHER_CODE_MAP THEN WEATHER_CODE_MAP[c[1]]
  ELSE [text |-> "Unknown", icon |-> "U+2753"]

\* Math.round of t tenths: the nearest integer, the larger one on a tie.
Round(t) == (t + 5) \div 10

\* Array.prototype.slice(0, n)
Slice(a, n) == SubSeq(a, 1, IF Len(a) < n THEN Len(a) ELSE n)

\* Every day of the response is shown.
dailyRowsNoSlice(w) ==
  IF w.daily = Null THEN <<>>
  ELSE LET d == w.daily[1]
           days == d.time
       IN  [idx \in 1 .. Len(days) |->
              [day  |-> days[idx],
               text |-> mapWeather(Some(d.weathercode[idx])).text,
               max  |-> Round(d.temperature_2m_max[idx]),
               min  |-> Round(d.temperature_2m_min[idx])]]

\* The rows of the "3-day Forecast" card for snapshot w (App.tsx 260-278)
dailyRows(w) ==
  IF w.daily = Null THEN <<>>
  ELSE LET d == w.daily[1]
           days == Slice(d.time, 3)
       IN  [idx \in 1 .. Len(days) |->
              [day  |-> days[idx],
               text |-> mapWeather(Some(d.weathercode[idx])).text,
               max  |-> Round(d.temperature_2m_max[idx]),
               min  |-> Round(d.temperature_2m_min[idx])]]

\* The codes mapWeather is called with.
Codes == {Null} \cup { Some(c) : c \in -1 .. MaxCode }

-----------------------------------------------------------------------------
(* History bookkeeping *)

Outstanding == geoReqs \cup wxReqs \cup posReqs

Event(kind, req, arg) ==
  [kind |-> kind, req |-> req, solo |-> req # Null /\ req[1].id \in solo,
   arg |-> arg]

\* A user operation issues request nReqs + 1: it is alone iff nothing is
\* outstanding, and whatever was outstanding stops being alone.
StartOp ==
  /\ nReqs' = nReqs + 1
  /\ solo' = IF Outstanding = {} THEN {nReqs + 1} ELSE {}

-----------------------------------------------------------------------------
Init ==
  /\ query = <<>>
  /\ locations = <<>>
  /\ loadingGeo = FALSE
  /\ loadingWeather = FALSE
  /\ weather = Null
  /\ error = Null
  /\ geolocation \in BOOLEAN
  /\ geoReqs = {}
  /\ wxReqs = {}
  /\ posReqs = {}
  /\ nReqs = 0
  /\ solo = {}
  /\ answered = [geo |-> 0, wx |-> 0]
  /\ lastEvent = [kind |-> "init", req |-> Null, solo |-> FALSE, arg |-> Null]
  /\ code = Null
  /\ descriptor = Null

\* onChange of the search box (App.tsx 151)
setQuery(q) ==
  /\ q # query
  /\ query' = q
  /\ lastEvent' = Event("setQuery", Null, q)
  /\ UNCHANGED <<locations, loadingGeo, loadingWeather, weather, error,
                 geolocation, code, descriptor, geoReqs, wxReqs, posReqs, nReqs, solo, answered>>

\* searchCity up to its first await (App.tsx 33-46)
searchCity ==
  /\ lastEvent' = Event("searchCity", Null, query)
  /\ IF Trim(query) = <<>>
     THEN UNCHANGED <<query, locations, loadingGeo, loadingWeather, weather,
                      error, geoReqs, nReqs, solo>>
     ELSE /\ nReqs < MaxReqs
          /\ error' = Null
          /\ locations' = <<>>
          /\ weather' = Null
          /\ loadingGeo' = TRUE
          /\ geoReqs' = geoReqs \cup {[id |-> nReqs + 1, name |-> query]}
          /\ StartOp
          /\ UNCHANGED <<query, loadingWeather>>
  /\ UNCHANGED <<geolocation, code, descriptor, wxReqs, posReqs, answered>>

\* res.ok is not looked at.
searchCityThrownNoOkCheck(o) ==
  IF o.exc # Null THEN o.exc
  ELSE IF o.json = Null THEN Some(JsonSyntaxError)
  ELSE Null

\* What the try block of searchCity throws for outcome o: Some(message), or
\* Null when it runs to its end (App.tsx 46-49).
searchCityThrown(o) ==
  IF o.exc # Null THEN o.exc
  ELSE IF ~Ok(o.status) THEN Some("Geocoding failed")
  ELSE IF o.json = Null THEN Some(JsonSyntaxError)
  ELSE Null

\* Only an absent results field counts as no result.
noResultsAbsentOnly(data) == data.results = Null

\* The test of App.tsx 50
noResults(data) == data.results = Null \/ Len(data.results[1]) = 0

\* The flag is reset on the normal path only.
searchCityNoFinally(thrown) == loadingGeo' = (thrown # Null /\ loadingGeo)

\* finally of searchCity (App.tsx 57-59)
searchCityFinally(thrown) == loadingGeo' = FALSE

\* A failed search is sent again: its request stays in flight.
searchCityResumeRetry(g, o) ==
  /\ g \in geoReqs
  /\ LET thrown == searchCityThrown(o) IN
       /\ IF thrown # Null
          THEN /\ error' = Some(IF thrown[1] # "" THEN thrown[1]
                                ELSE "Failed to search location.")
               /\ UNCHANGED <<locations, geoReqs>>
          ELSE LET data == o.json[1] IN
               /\ geoReqs' = geoReqs \ {g}
               /\ IF noResults(data)
                  THEN /\ error' = Some("No matching locations found.")
                       /\ UNCHANGED locations
                  ELSE /\ locations' = data.results[1]
                       /\ UNCHANGED error
       /\ searchCityFinally(thrown)
  /\ solo' = solo \ {g.id}
  /\ answered' = [answered EXCEPT !.geo = IF g.id > @ THEN g.id ELSE @]
  /\ lastEvent' = Event("searchCityResume", Some(g), o)
  /\ UNCHANGED <<query, loadingWeather, weather, geolocation, code, descriptor, wxReqs,
                 posReqs, nReqs>>

\* searchCity from the arrival of the response to the end (App.tsx 46-59)
searchCityResume(g, o) ==
  /\ g \in geoReqs
  /\ LET thrown == searchCityThrown(o) IN
       /\ IF thrown # Null
          THEN /\ error' = Some(IF thrown[1] # "" THEN thrown[1]
                                ELSE "Failed to search location.")
               /\ UNCHANGED locations
          ELSE LET data == o.json[1] IN
               IF noResults(data)
               THEN /\ error' = Some("No matching locations found.")
                    /\ UNCHANGED locations
               ELSE /\ locations' = data.results[1]
                    /\ UNCHANGED error
       /\ searchCityFinally(thrown)
  /\ geoReqs' = geoReqs \ {g}
  /\ solo' = solo \ {g.id}
  /\ answered' = [answered EXCEPT !.geo = IF g.id > @ THEN g.id ELSE @]
  /\ lastEvent' = Event("searchCityResume", Some(g), o)
  /\ UNCHANGED <<query, loadingWeather, weather, geolocation, code, descriptor, wxReqs,
                 posReqs, nReqs>>

\* fetchWeatherByCoords up to its first await (App.tsx 63-80).  id is the new
\* request's id and origin the handler that made the call.
fetchWeatherByCoords(id, origin, lat, lon, placeName) ==
  /\ error' = Null
  /\ loadingWeather' = TRUE
  /\ weather' = Null
  /\ locations' = <<>>
  /\ query' = IF placeName # Null THEN placeName[1]
              ELSE ToFixed2(lat) \o <<",", " ">> \o ToFixed2(lon)
  /\ wxReqs' = wxReqs \cup {[id |-> id, origin |-> origin, latitude |-> lat,
                             longitude |-> lon, placeName |-> placeName]}

\* The check of current_weather is left out.
fetchWeatherThrownNoDataCheck(o) ==
  IF o.exc # Null THEN o.exc
  ELSE IF ~Ok(o.status)
       THEN Some("Weather request failed with status " \o ToString(o.status))
  ELSE IF o.json = Null THEN Some("Unexpected response format from API")
  ELSE Null

\* What the try block of fetchWeatherByCoords throws for outcome o
\* (App.tsx 80-96).
fetchWeatherThrown(o) ==
  IF o.exc # Null THEN o.exc
  ELSE IF ~Ok(o.status)
       THEN Some("Weather request failed with status " \o ToString(o.status))
  ELSE IF o.json = Null THEN Some("Unexpected response format from API")
  ELSE IF o.json[1].current_weather = Null
       THEN Some("Weather data not found in API response")
  ELSE Null

\* fetchWeatherByCoords from the arrival of the response to the end
\* (App.tsx 80-104)
fetchWeatherResume(w, o) ==
  /\ w \in wxReqs
  /\ LET thrown == fetchWeatherThrown(o) IN
       IF thrown # Null
       THEN /\ error' = Some(IF thrown[1] # "" THEN thrown[1]
                             ELSE "Failed to fetch weather.")
            /\ UNCHANGED weather
       ELSE LET data == o.json[1] IN
            /\ weather' = Some([current_weather |-> data.current_weather,
                                daily |-> data.daily,
                                timezone |-> data.timezone,
                                placeName |-> IF w.placeName # Null
                                              THEN w.placeName[1]
                                              ELSE data.timezone])
            /\ UNCHANGED error
  /\ loadingWeather' = FALSE
  /\ wxReqs' = wxReqs \ {w}
  /\ solo' = solo \ {w.id}
  /\ answered' = [answered EXCEPT !.wx = IF w.id > @ THEN w.id ELSE @]
  /\ lastEvent' = Event("fetchWeatherResume", Some(w), o)
  /\ UNCHANGED <<query, locations, loadingGeo, geolocation, code, descriptor, geoReqs,
                 posReqs, nReqs>>

\* The label is the name alone.
LabelNameOnly(loc) == loc.name

\* The label onSelectLocation composes (App.tsx 111)
Label(loc) ==
  loc.name \o (IF loc.admin1 # <<>> THEN <<",", " ">> \o loc.admin1 ELSE <<>>)

\* Click on one of the rendered candidates (App.tsx 107-113, 173-178)
onSelectLocation(loc) ==
  /\ \E i \in 1..Len(locations) : locations[i] = loc
  /\ nReqs < MaxReqs
  /\ fetchWeatherByCoords(nReqs + 1, [kind |-> "onSelectLocation", loc |-> loc],
                          loc.latitude, loc.longitude, Some(Label(loc)))
  /\ StartOp
  /\ lastEvent' = Event("onSelectLocation", Null, loc)
  /\ UNCHANGED <<loadingGeo, geolocation, code, descriptor, geoReqs, posReqs, answered>>

\* The return after the capability error is missing: the flag is set before
\* the call on the absent navigator.geolocation throws.
useMyLocationNoReturn ==
  /\ lastEvent' = Event("useMyLocation", Null, Null)
  /\ IF ~geolocation
     THEN /\ error' = Some("Geolocation not available in your browser.")
          /\ loadingWeather' = TRUE
          /\ UNCHANGED <<posReqs, nReqs, solo>>
     ELSE /\ nReqs < MaxReqs
          /\ error' = Null
          /\ loadingWeather' = TRUE
          /\ posReqs' = posReqs \cup {[id |-> nReqs + 1]}
          /\ StartOp
  /\ UNCHANGED <<query, locations, loadingGeo, weather, geolocation, code, descriptor,
                 geoReqs, wxReqs, answered>>

\* useMyLocation up to the call of getCurrentPosition (App.tsx 115-122)
useMyLocation ==
  /\ lastEvent' = Event("useMyLocation", Null, Null)
  /\ IF ~geolocation
     THEN /\ error' = Some("Geolocation not available in your browser.")
          /\ UNCHANGED <<loadingWeather, posReqs, nReqs, solo>>
     ELSE /\ nReqs < MaxReqs
          /\ error' = Null
          /\ loadingWeather' = TRUE
          /\ posReqs' = posReqs \cup {[id |-> nReqs + 1]}
          /\ StartOp
  /\ UNCHANGED <<query, locations, loadingGeo, weather, geolocation, code, descriptor,
                 geoReqs, wxReqs, answered>>

\* Success callback of getCurrentPosition (App.tsx 123-129): the operation
\* goes on with a forecast request.
positionSuccess(p, pos) ==
  /\ p \in posReqs
  /\ posReqs' = posReqs \ {p}
  /\ fetchWeatherByCoords(nReqs + 1, [kind |-> "useMyLocation", loc |-> pos],
                          pos.latitude, pos.longitude, Some(YourLocation))
  /\ nReqs' = nReqs + 1
  /\ solo' = IF p.id \in solo THEN {nReqs + 1} ELSE {}
  /\ lastEvent' = Event("positionSuccess", Some(p), pos)
  /\ UNCHANGED <<loadingGeo, geolocation, code, descriptor, geoReqs, answered>>

\* The callback reports the error and leaves the flag set.
positionErrorKeepsLoading(p, m) ==
  /\ p \in posReqs
  /\ posReqs' = posReqs \ {p}
  /\ error' = Some("Could not get location: " \o m)
  /\ solo' = solo \ {p.id}
  /\ lastEvent' = Event("positionError", Some(p), m)
  /\ UNCHANGED <<query, locations, loadingGeo, loadingWeather, weather,
                 geolocation, code, descriptor, geoReqs, wxReqs, nReqs, answered>>

\* Failure callback of getCurrentPosition (App.tsx 130-133)
positionError(p, m) ==
  /\ p \in posReqs
  /\ posReqs' = posReqs \ {p}
  /\ loadingWeather' = FALSE
  /\ error' = Some("Could not get location: " \o m)
  /\ solo' = solo \ {p.id}
  /\ lastEvent' = Event("positionError", Some(p), m)
  /\ UNCHANGED <<query, locations, loadingGeo, weather, geolocation, code, descriptor,
                 geoReqs, wxReqs, nReqs, answered>>

\* A response or a device callback arrives.
Arrival ==
  \/ \E g \in geoReqs, o \in Outcomes(GeoBodies) : searchCityResume(g, o)
  \/ \E w \in wxReqs, o \in Outcomes(WxBodies) : fetchWeatherResume(w, o)
  \/ \E p \in posReqs, pos \in Positions : positionSuccess(p, pos)
  \/ \E p \in posReqs, m \in DeviceMessages : positionError(p, m)

\* What the user does.
User ==
  \/ \E q \in TypedQueries : setQuery(q)
  \/ searchCity
  \/ \E loc \in {LocA, LocB} : onSelectLocation(loc)
  \/ useMyLocation

Next == User \/ Arrival

Spec == Init /\ [][Next]_vars

\* Every request that was issued is eventually answered.
LiveSpec == Spec /\ WF_vars(Arrival)

\* Runs in which the user only asks for the forecast of the device position,
\* the upstream answering with daily arrays of every length.
DailyNext ==
  \/ useMyLocation
  \/ \E p \in posReqs, pos \in Positions : positionSuccess(p, pos)
  \/ \E p \in posReqs, m \in DeviceMessages : positionError(p, m)
  \/ \E w \in wxReqs, o \in Outcomes(DailyBodies) : fetchWeatherResume(w, o)

DailySpec == Init /\ [][DailyNext]_vars

\* One call of mapWeather, as the render makes it (App.tsx 213, 251, 269).
callMapWeather(c) ==
  /\ code' = c
  /\ descriptor' = Some(mapWeather(c))
  /\ UNCHANGED <<query, locations, loadingGeo, loadingWeather, weather, error,
                 geolocation, geoReqs, wxReqs, posReqs, nReqs, solo, answered,
                 lastEvent>>

MapNext == \E c \in Codes : callMapWeather(c)

\* mapWeather on its own, called with one code after the other.
MapSpec == Init /\ [][MapNext]_vars
-----------------------------------------------------------------------------
(* Properties.                                                             *)
(* "The only outstanding operation" is read over the life of the request:  *)
(* lastEvent.solo says that from the start of its operation to the arrival *)
(* of its response no other request was outstanding.                       *)

AllWhite(q) == \A i \in 1..Len(q) : q[i] \in WhiteSpace

\* The last step started an operation: a searchCity with a non-blank query,
\* an onSelectLocation, or a useMyLocation with geolocation available.
OperationBegan ==
  \/ lastEvent.kind = "searchCity" /\ ~AllWhite(lastEvent.arg)
  \/ lastEvent.kind = "onSelectLocation"
  \/ lastEvent.kind = "useMyLocation" /\ geolocation

\* C1: right after an operation has begun (a non-empty searchCity, an
\* onSelectLocation, a useMyLocation with geolocation available) and before
\* any response arrives, locations is empty, weather is null and error is null.
C1_StartClearsResults ==
  OperationBegan => (locations = <<>> /\ weather = Null /\ error = Null)

\* C2: a non-empty candidate list and a non-null weather snapshot never hold
\* together, in any reachable state.
C2_OneResultVisible == ~(locations # <<>> /\ weather # Null)

\* The fetch r has been superseded: a fetch of the same kind that was started
\* after r has already been answered.
Superseded(r, kind) == answered[kind] > r.id

\* C3: the arrival of the response of a superseded searchCity or
\* fetchWeatherByCoords call leaves locations, weather and error as they are.
C3_LateResultDiscarded ==
  [][ /\ \A g \in geoReqs : (g \notin geoReqs' /\ Superseded(g, "geo"))
                              => UNCHANGED <<locations, weather, error>>
      /\ \A w \in wxReqs : (w \notin wxReqs' /\ Superseded(w, "wx"))
                              => UNCHANGED <<locations, weather, error>>
    ]_vars

\* The label of candidate c as the specification words it: "name, admin1"
\* when admin1 is present, else "name".
ComposedLabel(c) ==
  IF c.admin1 = <<>> THEN c.name ELSE c.name \o <<",", " ">> \o c.admin1

\* C4: onSelectLocation(c) issues exactly one forecast request, with c's
\* latitude and longitude, and sets query to the composed label; when that
\* request succeeds, having been the only outstanding operation, locations is
\* empty and weather.placeName is the composed label.
C4_SearchThenSelect ==
  [][ /\ \A c \in {LocA, LocB} :
           (lastEvent'.kind = "onSelectLocation" /\ lastEvent'.arg = c
            /\ nReqs' = nReqs + 1)
             => /\ \E r \in wxReqs' :
                     /\ r \notin wxReqs
                     /\ wxReqs' = wxReqs \cup {r}
                     /\ r.latitude = c.latitude
                     /\ r.longitude = c.longitude
                /\ geoReqs' = geoReqs
                /\ posReqs' = posReqs
                /\ query' = ComposedLabel(c)
      /\ \A w \in wxReqs :
           (/\ w \notin wxReqs'
            /\ w.origin.kind = "onSelectLocation"
            /\ lastEvent'.solo
            /\ lastEvent'.arg.exc = Null
            /\ Ok(lastEvent'.arg.status)
            /\ lastEvent'.arg.json # Null
            /\ lastEvent'.arg.json[1].current_weather # Null)
             => /\ locations' = <<>>
                /\ weather' # Null
                /\ weather'[1].placeName = ComposedLabel(w.origin.loc)
    ]_vars

\* C4 witness: the forecast for the selected LocA arrived and is shown under
\* the label "P, E".
C4_Witness ==
  /\ lastEvent.kind = "fetchWeatherResume"
  /\ lastEvent.solo
  /\ lastEvent.req[1].origin = [kind |-> "onSelectLocation", loc |-> LocA]
  /\ lastEvent.req[1].latitude = 51507
  /\ locations = <<>>
  /\ weather # Null
  /\ weather[1].placeName = <<"P", ",", " ", "E">>

\* C5: searchCity with a query that is empty after trimming changes none of
\* query, locations, weather, error, loadingGeo, loadingWeather and issues
\* no request.
C5_BlankSearchIsNoOp ==
  [][ (lastEvent'.kind = "searchCity" /\ AllWhite(query))
        => UNCHANGED <<ui, reqs>> ]_vars

\* C5 witness: a search on a query of blanks only ran while a weather
\* snapshot was shown.
C5_Witness ==
  /\ lastEvent.kind = "searchCity"
  /\ lastEvent.arg = <<" ", " ">>
  /\ weather # Null

Idle == ~loadingGeo /\ ~loadingWeather

\* C6: both loading flags are false at startup and, when every request is
\* eventually answered and the user stops starting operations, the flags are
\* eventually both false for good.
C6_ReturnsToIdle == Idle /\ <>[]Idle

\* C6 witness: requests of both fetch kinds were answered, none is left and
\* both flags are false.
C6_Witness ==
  /\ Outstanding = {}
  /\ answered.geo > 0 /\ answered.wx > 0
  /\ Idle

\* C7: while a geocoding request is unresolved loadingGeo is true, and while
\* a forecast request is unresolved loadingWeather is true.
C7_LoadingWhilePending ==
  /\ geoReqs # {} => loadingGeo
  /\ wxReqs # {} => loadingWeather

\* The last step was the arrival of a 2xx geocoding response with a parsed
\* body, for a search that was the only outstanding operation.
GeoBodyArrived ==
  /\ lastEvent.kind = "searchCityResume"
  /\ lastEvent.solo
  /\ lastEvent.arg.exc = Null
  /\ Ok(lastEvent.arg.status)
  /\ lastEvent.arg.json # Null

UpstreamResults == lastEvent.arg.json[1].results

\* C8 as written: no results give an empty list, the message "No matching
\* locations found." and loadingGeo false; one or more results give locations
\* equal to the upstream sequence and error null.
C8_GeoResponseAsWritten ==
  GeoBodyArrived =>
    IF UpstreamResults = Null \/ UpstreamResults = Some(<<>>)
    THEN /\ locations = <<>>
         /\ error = Some("No matching locations found.")
         /\ ~loadingGeo
    ELSE /\ locations = UpstreamResults[1]
         /\ error = Null

\* C8 amended: as C8, except that a response with results leaves error as it
\* was: null, unless useMyLocation ran without the geolocation capability
\* while the search was pending.
C8_GeoResponse ==
  [][ GeoBodyArrived' /\ lastEvent'.req[1] \in geoReqs =>
        IF UpstreamResults' = Null \/ UpstreamResults' = Some(<<>>)
        THEN /\ locations' = <<>>
             /\ error' = Some("No matching locations found.")
             /\ ~loadingGeo'
        ELSE /\ locations' = UpstreamResults'[1]
             /\ error' = error
             /\ error' \in {Null,
                            Some("Geolocation not available in your browser.")}
             /\ geolocation => error' = Null
    ]_vars

\* C8 witness: the candidates arrived in the upstream order LocB, LocA.
C8_Witness ==
  /\ GeoBodyArrived
  /\ UpstreamResults = Some(<<LocB, LocA>>)
  /\ locations = <<LocB, LocA>>
  /\ error = Null

\* C9: for a fetchWeatherByCoords call that is the only outstanding
\* operation, status N outside 2xx gives "Weather request failed with status
\* N", an unparseable body "Unexpected response format from API", a payload
\* without current_weather "Weather data not found in API response"; each
\* time weather is null and loadingWeather false.
C9_ForecastFailures ==
  (lastEvent.kind = "fetchWeatherResume" /\ lastEvent.solo
     /\ lastEvent.arg.exc = Null)
  => LET o == lastEvent.arg IN
     /\ o.status = 404 =>
          error = Some("Weather request failed with status 404")
     /\ o.status = 500 =>
          error = Some("Weather request failed with status 500")
     /\ (Ok(o.status) /\ o.json = Null) =>
          error = Some("Unexpected response format from API")
     /\ (Ok(o.status) /\ o.json # Null /\ o.json[1].current_weather = Null) =>
          error = Some("Weather data not found in API response")
     /\ (~Ok(o.status) \/ o.json = Null \/ o.json[1].current_weather = Null) =>
          (weather = Null /\ ~loadingWeather)

\* C9 witness: a payload without current_weather arrived.
C9_Witness ==
  /\ lastEvent.kind = "fetchWeatherResume"
  /\ lastEvent.solo
  /\ lastEvent.arg.json # Null
  /\ lastEvent.arg.json[1].current_weather = Null
  /\ error = Some("Weather data not found in API response")

\* C10: the failure callback of the device position, with message m, leaves
\* loadingWeather false and error = "Could not get location: " + m, and
\* issues no request.
C10_PositionFailure ==
  [][ \A p \in posReqs :
        (lastEvent'.kind = "positionError" /\ lastEvent'.req = Some(p))
          => /\ ~loadingWeather'
             /\ error' = Some("Could not get location: " \o lastEvent'.arg)
             /\ wxReqs' = wxReqs
             /\ geoReqs' = geoReqs
             /\ posReqs' = posReqs \ {p}
    ]_vars

\* C10 witness: the device denied the position while another forecast
\* request was in flight.
C10_Witness ==
  /\ lastEvent.kind = "positionError"
  /\ lastEvent.arg = "User denied Geolocation"
  /\ error = Some("Could not get location: User denied Geolocation")
  /\ ~loadingWeather

\* C11: without the geolocation capability useMyLocation sets error to
\* "Geolocation not available in your browser.", requests no position, issues
\* no forecast request and leaves loadingWeather as it was.
C11_NoGeolocation ==
  [][ (lastEvent'.kind = "useMyLocation" /\ ~geolocation)
        => /\ error' = Some("Geolocation not available in your browser.")
           /\ loadingWeather' = loadingWeather
           /\ UNCHANGED <<reqs, nReqs>>
    ]_vars

\* C11 witness: the capability error was raised while a forecast request was
\* pending, the flag still set.
C11_Witness ==
  /\ lastEvent.kind = "useMyLocation"
  /\ ~geolocation
  /\ error = Some("Geolocation not available in your browser.")
  /\ wxReqs # {}
  /\ loadingWeather

\* The step adds exactly one request to the set before, giving the set after.
OneMore(before, after) ==
  \E r \in after : r \notin before /\ after = before \cup {r}

\* C12: a non-empty searchCity issues exactly one geocoding request and no
\* forecast request; an onSelectLocation and a successful position callback
\* issue exactly one forecast request; a response handler or the failure
\* callback issues none.  So requests and triggering events stay equal in
\* number.
C12_NoRetries ==
  [][ /\ (lastEvent'.kind = "searchCity" /\ ~AllWhite(query))
           => /\ OneMore(geoReqs, geoReqs')
              /\ UNCHANGED <<wxReqs, posReqs>>
      /\ lastEvent'.kind = "onSelectLocation"
           => /\ OneMore(wxReqs, wxReqs')
              /\ UNCHANGED <<geoReqs, posReqs>>
      /\ lastEvent'.kind = "positionSuccess"
           => /\ OneMore(wxReqs, wxReqs')
              /\ posReqs' = posReqs \ {lastEvent'.req[1]}
              /\ UNCHANGED geoReqs
      /\ lastEvent'.kind = "searchCityResume"
           => /\ geoReqs' = geoReqs \ {lastEvent'.req[1]}
              /\ geoReqs' # geoReqs
              /\ UNCHANGED <<wxReqs, posReqs, nReqs>>
      /\ lastEvent'.kind = "fetchWeatherResume"
           => /\ wxReqs' = wxReqs \ {lastEvent'.req[1]}
              /\ wxReqs' # wxReqs
              /\ UNCHANGED <<geoReqs, posReqs, nReqs>>
      /\ lastEvent'.kind = "positionError"
           => /\ posReqs' = posReqs \ {lastEvent'.req[1]}
              /\ UNCHANGED <<geoReqs, wxReqs, nReqs>>
    ]_vars

\* C12 witness: a failed search was answered and nothing is in flight.
C12_Witness ==
  /\ lastEvent.kind = "searchCityResume"
  /\ lastEvent.arg.status = 500
  /\ nReqs = 1
  /\ Outstanding = {}

\* C13: a geocoding request that fails as the only outstanding operation
\* ends with locations empty, weather null, loadingGeo false and error set:
\* "Geocoding failed" on a non-success status, the exception's message on a
\* transport or parsing exception, "Failed to search location." when the
\* exception has no message.
C13_GeocodingFailures ==
  (lastEvent.kind = "searchCityResume" /\ lastEvent.solo)
  => LET o == lastEvent.arg IN
     /\ (o.exc # Null /\ o.exc # Some("")) => error = o.exc
     /\ o.exc = Some("") => error = Some("Failed to search location.")
     /\ (o.exc = Null /\ ~Ok(o.status)) => error = Some("Geocoding failed")
     /\ (o.exc = Null /\ Ok(o.status) /\ o.json = Null)
          => error = Some(JsonSyntaxError)
     /\ (o.exc # Null \/ ~Ok(o.status) \/ o.json = Null)
          => /\ error # Null
             /\ locations = <<>>
             /\ weather = Null
             /\ ~loadingGeo

\* C13 witness: the fetch was rejected by an exception without a message.
C13_Witness ==
  /\ lastEvent.kind = "searchCityResume"
  /\ lastEvent.solo
  /\ lastEvent.arg.exc = Some("")
  /\ error = Some("Failed to search location.")
  /\ ~loadingGeo

\* After the position request p was made, the user started a searchCity or
\* an onSelectLocation whose request is known: in flight, or a search
\* already answered.
NewerOperation(p) ==
  \/ \E g \in geoReqs : g.id > p.id
  \/ answered.geo > p.id
  \/ \E w \in wxReqs : w.id > p.id /\ w.origin.kind = "onSelectLocation"

\* C16: when a searchCity or onSelectLocation was started after useMyLocation
\* requested the position, the late arrival of the position changes none of
\* query, locations, weather, error and starts no forecast request.
C16_LatePositionIgnored ==
  [][ \A p \in posReqs :
        (lastEvent'.kind = "positionSuccess" /\ lastEvent'.req = Some(p)
         /\ NewerOperation(p))
          => UNCHANGED <<query, locations, weather, error, wxReqs>>
    ]_vars

\* C17: loadingGeo only while a geocoding request is unresolved, and
\* loadingWeather only while a forecast or a position request is unresolved.
C17_NoStuckSpinner ==
  /\ loadingGeo => geoReqs # {}
  /\ loadingWeather => (wxReqs \cup posReqs) # {}

\* C17 witness: both indicators are shown, for a search and a position
\* request in flight.
C17_Witness ==
  /\ loadingGeo
  /\ loadingWeather
  /\ geoReqs # {}
  /\ posReqs # {}
  /\ wxReqs = {}

\* C18: a non-null error and a non-null weather snapshot never hold together.
C18_ErrorWeatherExclusive == ~(error # Null /\ weather # Null)

KnownCodes == {0, 1, 2, 3, 45, 48, 51, 61, 63, 65, 71, 80, 95}

\* C15: mapWeather returns the table's pair for each of the thirteen known
\* codes and {text: "Unknown", icon: U+2753} for every other integer and for
\* an absent code; the result depends on the code alone.
C15_MapWeather ==
  descriptor # Null =>
    /\ (code # Null /\ code[1] \in KnownCodes)
         => /\ descriptor[1] = WEATHER_CODE_MAP[code[1]]
            /\ descriptor[1].text # "Unknown"
    /\ (code = Null \/ code[1] \notin KnownCodes)
         => descriptor[1] = [text |-> "Unknown", icon |-> "U+2753"]
    /\ code = Some(0)
         => descriptor[1] = [text |-> "Clear sky", icon |-> "U+2600 U+FE0F"]
    /\ code = Some(95)
         => descriptor[1] = [text |-> "Thunderstorm", icon |-> "U+26C8 U+FE0F"]

\* C15 witness: mapWeather was called without a code.
C15_Witness ==
  /\ code = Null
  /\ descriptor = Some([text |-> "Unknown", icon |-> "U+2753"])

\* The upstream daily arrays of snapshot w; none when daily is absent.
UpstreamDaily(w) == IF w.daily = Null THEN Daily0 ELSE w.daily[1]

\* r is t tenths rounded to the nearest integer.
Nearest(r, t) == 10 * r - 5 <= t /\ t < 10 * r + 5

\* The card of snapshot w shows the first min(3, n) upstream days, row i
\* made of entry i of each array.
PrefixOfThree(w) ==
  LET up   == UpstreamDaily(w)
      n    == Len(up.time)
      rows == dailyRows(w)
  IN  /\ Len(rows) = IF n < 3 THEN n ELSE 3
      /\ \A i \in 1 .. Len(rows) :
           /\ rows[i].day = up.time[i]
           /\ rows[i].text = mapWeather(Some(up.weathercode[i])).text
           /\ Nearest(rows[i].max, up.temperature_2m_max[i])
           /\ Nearest(rows[i].min, up.temperature_2m_min[i])
      /\ w.daily = Some(Daily5) =>
           rows = << [day |-> "d1", text |-> "Clear sky", max |-> 12, min |-> 1],
                     [day |-> "d2", text |-> "Overcast", max |-> 12, min |-> -4],
                     [day |-> "d3", text |-> "Slight rain", max |-> -2,
                      min |-> -11] >>

\* The last step was a forecast response that parsed and has current_weather.
ForecastArrived ==
  /\ lastEvent.kind = "fetchWeatherResume"
  /\ lastEvent.arg.exc = Null
  /\ Ok(lastEvent.arg.status)
  /\ lastEvent.arg.json # Null
  /\ lastEvent.arg.json[1].current_weather # Null

\* C14: the daily forecast shown is the prefix of length min(3, n) of the
\* upstream daily arrays, in upstream order, entry i built from index i of
\* the four arrays; five days show the first three; absent or empty daily
\* arrays give a snapshot with no row and set no error.
C14_DailyPrefix ==
  [][ /\ weather' # Null => PrefixOfThree(weather'[1])
      /\ (ForecastArrived' /\ lastEvent'.req[1] \in wxReqs
          /\ Len(UpstreamDaily(lastEvent'.arg.json[1]).time) = 0)
           => /\ weather' # Null
              /\ dailyRows(weather'[1]) = <<>>
              /\ error' = error
    ]_vars

\* C14 witness: a response with five days is shown with three rows.
C14_Witness ==
  /\ ForecastArrived
  /\ weather # Null
  /\ ~loadingWeather
  /\ weather[1].daily = Some(Daily5)
  /\ Len(dailyRows(weather[1])) = 3
  /\ dailyRows(weather[1])[3].day = "d3"
====
